---- MODULE Spec2Model ----
(***************************************************************************)
(* Model of zos_files_for_zowe_sdk.Files (files.py): the option            *)
(* validation and the request construction of its operations, and the      *)
(* state a Files object and its methods' default arguments keep between    *)
(* calls.                                                                  *)
(*                                                                         *)
(* A Python str that the code takes apart or puts together is a sequence   *)
(* of tokens (characters, or a literal of the source kept whole); a dict   *)
(* is a function from its keys (an absent key is outside the DOMAIN); an   *)
(* insertion-ordered dict whose iteration order matters is a sequence of   *)
(* <<key, value>> pairs.                                                   *)
(***************************************************************************)
EXTENDS Integers, Sequences, FiniteSets, TLC

\* How far above the allocation maximum the supplied quantities range.
Excess == 1

\* How many operations are called on the one Files object.
MaxCalls == 2

(***************************************************************************)
(* State of the Files object and of its methods' default arguments         *)
(***************************************************************************)
VARIABLES
  self_default_headers,  \* self.default_headers of the Files object
  default_options        \* the dict objects bound as the `options={}` defaults

(***************************************************************************)
(* Python helpers                                                          *)
(***************************************************************************)
EmptyDict == <<>>

\* options.get(k) is not None (a key given with the value None counts as absent
\* there, and no mapping of the model carries one)
Has(d, k) == k \in DOMAIN d

\* d[k] = v
SetItem(d, k, v) == [x \in (DOMAIN d) \cup {k} |-> IF x = k THEN v ELSE d[x]]

\* int(a / b) for b > 0: the quotient truncated toward zero
IntOfQuotient(a, b) == IF a >= 0 THEN a \div b ELSE -((-a) \div b)

Digit(d) == <<"0", "1", "2", "3", "4", "5", "6", "7", "8", "9">>[d + 1]

RECURSIVE FormatNat(_)
FormatNat(n) == IF n < 10 THEN <<Digit(n)>> ELSE FormatNat(n \div 10) \o <<Digit(n % 10)>>

\* "{}".format(n) for an int n
FormatInt(n) == IF n < 0 THEN <<"-">> \o FormatNat(-n) ELSE FormatNat(n)

Whitespace == {" ", "\t", "\n"}

RECURSIVE LStrip(_)
LStrip(s) == IF s # <<>> /\ Head(s) \in Whitespace THEN LStrip(Tail(s)) ELSE s

RECURSIVE RStrip(_)
RStrip(s) ==
  IF s # <<>> /\ s[Len(s)] \in Whitespace THEN RStrip(SubSeq(s, 1, Len(s) - 1)) ELSE s

\* str.strip()
Strip(s) == RStrip(LStrip(s))

\* json.dumps of a bool
JsonDumpsBool(b) == IF b THEN "true" ELSE "false"

(***************************************************************************)
(* Exceptions.  message is what str(exception) gives, as tokens.           *)
(***************************************************************************)
NoError == [cls |-> "", message |-> <<>>]

Raise(cls, message) == [cls |-> cls, message |-> message]

MissingRequiredOptionError ==
  Raise("ValueError", <<"If 'like' is not specified, you must specify 'primary' or 'lrecl'.">>)

InvalidEnqError == Raise("ValueError", <<"Invalid value for enq.">>)

(***************************************************************************)
(* The Files object and the request handler                                *)
(***************************************************************************)
request_endpoint == <<"https://mock-url.com:443/zosmf/restfiles/">>

default_headers == SetItem(EmptyDict, "Accept-Encoding", "gzip")

\* The request arguments a call starts from: the object's, with a headers
\* mapping of the call's own that holds the object's default headers.
create_custom_request_arguments ==
  [url |-> request_endpoint, headers |-> self_default_headers]

\* What the object's default headers are once a call has written `written`
\* into the headers of its request arguments: the call wrote into its own
\* mapping.
KeptDefaultHeaders_Shared(own, written) == written

KeptDefaultHeaders(own, written) == own

\* One call of request_handler.perform_request, as the handler receives it.
perform_request(method, custom_args, expected_code) ==
  [method |-> method, custom_args |-> custom_args, expected_code |-> expected_code]

\* What a call of an operation leaves behind: the exception it raised, the
\* caller's option mapping as the call left it, the requests it handed over.
Outcome(raised, options, requests) ==
  [raised |-> raised, options |-> options, requests |-> requests]

(***************************************************************************)
(* create_data_set                                                         *)
(***************************************************************************)
MaxPrimary == 16777215

MaxSecondary == 16777215

OptOrder ==
  <<"volser", "unit", "dsorg", "alcunit", "primary", "secondary", "dirblk", "avgblk",
    "recfm", "blksize", "lrecl", "storclass", "mgntclass", "dataclass", "dsntype", "like">>

\* The state of the validation loop: the mapping (written in place) and the
\* exception raised, if any.
Step(options, raised) == [options |-> options, raised |-> raised]

\* Mutation: both must be missing before the call is refused.
MissingRequired_Both(options) == ~Has(options, "primary") /\ ~Has(options, "lrecl")

MissingRequired(options) == ~Has(options, "primary") \/ ~Has(options, "lrecl")

CheckDsorg(options) ==
  IF Has(options, "dsorg") /\ options["dsorg"] \notin {"PO", "PS"}
  THEN Step(options, Raise("KeyError", <<>>))
  ELSE Step(options, NoError)

CheckAlcunit(options) ==
  IF ~Has(options, "alcunit")
  THEN Step(SetItem(options, "alcunit", "TRK"), NoError)
  ELSE IF options["alcunit"] \notin {"CYL", "TRK"}
       THEN Step(options, Raise("KeyError", <<>>))
       ELSE Step(options, NoError)

CheckPrimary(options) ==
  IF Has(options, "primary") /\ options["primary"] > MaxPrimary
  THEN Step(options, Raise("ValueError", <<>>))
  ELSE Step(options, NoError)

DefaultSecondary(primary) == IntOfQuotient(primary, 10)

CheckSecondary(options) ==
  IF Has(options, "primary")
  THEN LET o == IF ~Has(options, "secondary")
                THEN SetItem(options, "secondary", DefaultSecondary(options["primary"]))
                ELSE options
       IN  IF o["secondary"] > MaxSecondary
           THEN Step(o, Raise("ValueError", <<>>))
           ELSE Step(o, NoError)
  ELSE Step(options, NoError)

CheckDirblk(options) ==
  IF Has(options, "dirblk")
  THEN IF Has(options, "dsorg") /\ options["dsorg"] = "PS"
       THEN IF options["dirblk"] # 0
            THEN Step(options, Raise("ValueError", <<>>))
            ELSE Step(options, NoError)
       ELSE IF Has(options, "dsorg") /\ options["dsorg"] = "PO"
            THEN IF options["dirblk"] = 0
                 THEN Step(options, Raise("ValueError", <<>>))
                 ELSE Step(options, NoError)
            ELSE Step(options, NoError)
  ELSE Step(options, NoError)

\* Mutation: the default record format is FB.
CheckRecfm_DefaultFB(options) ==
  IF ~Has(options, "recfm")
  THEN Step(SetItem(options, "recfm", "FB"), NoError)
  ELSE IF options["recfm"] \notin {"F", "FB", "V", "VB", "U"}
       THEN Step(options, Raise("KeyError", <<>>))
       ELSE Step(options, NoError)

CheckRecfm(options) ==
  IF ~Has(options, "recfm")
  THEN Step(SetItem(options, "recfm", "F"), NoError)
  ELSE IF options["recfm"] \notin {"F", "FB", "V", "VB", "U"}
       THEN Step(options, Raise("KeyError", <<>>))
       ELSE Step(options, NoError)

CheckBlksize(options) ==
  IF ~Has(options, "blksize") /\ Has(options, "lrecl")
  THEN Step(SetItem(options, "blksize", options["lrecl"]), NoError)
  ELSE Step(options, NoError)

\* The body of the loop for one opt.
CheckOpt(options, opt) ==
  CASE opt = "dsorg"     -> CheckDsorg(options)
    [] opt = "alcunit"   -> CheckAlcunit(options)
    [] opt = "primary"   -> CheckPrimary(options)
    [] opt = "secondary" -> CheckSecondary(options)
    [] opt = "dirblk"    -> CheckDirblk(options)
    [] opt = "recfm"     -> CheckRecfm(options)
    [] opt = "blksize"   -> CheckBlksize(options)
    [] OTHER             -> Step(options, NoError)

\* for opt in (...): from the i-th opt on; a raise leaves the loop.
RECURSIVE CheckOpts(_, _)
CheckOpts(options, i) ==
  IF i > Len(OptOrder)
  THEN Step(options, NoError)
  ELSE LET s == CheckOpt(options, OptOrder[i])
       IN  IF s.raised # NoError THEN s ELSE CheckOpts(s.options, i + 1)

\* The validation applies where 'like' is not given.
Validated(options) == ~Has(options, "like")

ValidateDataSetOptions(options) ==
  IF Validated(options)
  THEN IF MissingRequired(options)
       THEN Step(options, MissingRequiredOptionError)
       ELSE CheckOpts(options, 1)
  ELSE Step(options, NoError)

create_data_set(dataset_name, options) ==
  LET s == ValidateDataSetOptions(options)
  IN  IF s.raised # NoError
      THEN Outcome(s.raised, s.options, <<>>)
      ELSE LET custom_args ==
                 [create_custom_request_arguments
                    EXCEPT !.url = request_endpoint \o <<"ds/">> \o dataset_name]
           IN  Outcome(NoError, s.options,
                       <<perform_request("POST", SetItem(custom_args, "json", s.options),
                                         <<201>>)>>)

(***************************************************************************)
(* create_zFS_file_system                                                  *)
(***************************************************************************)
\* constants.zos_file_constants['MaxAllocationQuantity']
MaxAllocationQuantity == 16777215

\* exceptions.InvalidPermsOption(value)
InvalidPermsOption(value) ==
  Raise("InvalidPermsOption",
        <<"Invalid zos-files create command 'perms' option: ">> \o FormatInt(value))

\* exceptions.MaxAllocationQuantityExceeded
MaxAllocationQuantityExceeded ==
  Raise("MaxAllocationQuantityExceeded",
        <<"Maximum allocation quantity of ">> \o FormatInt(MaxAllocationQuantity)
          \o <<" exceeded">>)

\* Mutation: the upper bound read as the octal mode 0o777.
PermsOutOfRange_Octal(value) == value < 0 \/ value > 511

PermsOutOfRange(value) == value < 0 \/ value > 777

\* Mutation: the maximum itself is refused.
ExceedsMaxAllocation_Inclusive(value) == value >= MaxAllocationQuantity

ExceedsMaxAllocation(value) == value > MaxAllocationQuantity

\* for key, value in options.items(): from the i-th item on.
RECURSIVE CheckZfsItems(_, _)
CheckZfsItems(items, i) ==
  IF i > Len(items)
  THEN NoError
  ELSE LET key == items[i][1]
           value == items[i][2]
       IN  IF key = "perms" /\ PermsOutOfRange(value)
           THEN InvalidPermsOption(value)
           ELSE IF key \in {"cylsPri", "cylsSec"} /\ ExceedsMaxAllocation(value)
                THEN MaxAllocationQuantityExceeded
                ELSE CheckZfsItems(items, i + 1)

create_zFS_file_system(file_system_name, options) ==
  LET err == CheckZfsItems(options, 1)
  IN  IF err # NoError
      THEN Outcome(err, options, <<>>)
      ELSE LET custom_args ==
                 [create_custom_request_arguments
                    EXCEPT !.url = request_endpoint \o <<"mfs/zfs/">> \o file_system_name]
           IN  Outcome(NoError, options,
                       <<perform_request("POST", SetItem(custom_args, "json", options),
                                         <<201>>)>>)

(***************************************************************************)
(* rename_dataset_member                                                   *)
(***************************************************************************)
SHR == <<"S", "H", "R">>

SHRW == <<"S", "H", "R", "W">>

EXCLU == <<"E", "X", "C", "L", "U">>

\* Mutation: SHR is taken as well, as the copy operations take it.
RenameEnqValues_WithSHR == {SHR, SHRW, EXCLU}

RenameEnqValues == {SHRW, EXCLU}

\* Mutation: the enq goes next to "from-dataset" instead of into it.
RenameData_EnqOutside(dataset_name, before_member_name, enq) ==
  LET from == [dsn |-> Strip(dataset_name), member |-> Strip(before_member_name)]
      data == SetItem(SetItem(EmptyDict, "request", "rename"), "from-dataset", from)
  IN  IF enq # <<>> THEN SetItem(data, "enq", Strip(enq)) ELSE data

\* The request body: data, with data["from-dataset"]["enq"] for a non-empty enq.
RenameData(dataset_name, before_member_name, enq) ==
  LET from == [dsn |-> Strip(dataset_name), member |-> Strip(before_member_name)]
      from_enq == IF enq # <<>> THEN SetItem(from, "enq", Strip(enq)) ELSE from
  IN  SetItem(SetItem(EmptyDict, "request", "rename"), "from-dataset", from_enq)

rename_dataset_member(dataset_name, before_member_name, after_member_name, enq) ==
  LET path_to_member == Strip(dataset_name) \o <<"(">> \o Strip(after_member_name) \o <<")">>
  IN  IF enq # <<>> /\ enq \notin RenameEnqValues
      THEN Outcome(InvalidEnqError, EmptyDict, <<>>)
      ELSE LET custom_args ==
                 SetItem(create_custom_request_arguments, "json",
                         RenameData(dataset_name, before_member_name, enq))
           IN  Outcome(NoError, EmptyDict,
                       <<perform_request("PUT",
                                         [custom_args EXCEPT
                                            !.url = request_endpoint \o <<"ds/">> \o path_to_member],
                                         <<200>>)>>)

(***************************************************************************)
(* copy_from_dataset                                                       *)
(***************************************************************************)
\* Mutation: only SHRW and EXCLU are taken.
CopyEnqValues_Two == {SHRW, EXCLU}

CopyEnqValues == {SHR, SHRW, EXCLU}

copy_from_dataset(from_dsn, to_dataset_name, to_member_name, volser, enq, replace, alias) ==
  LET from0 == [dsn |-> from_dsn, alias |-> JsonDumpsBool(alias)]
      from1 == IF volser # <<>> THEN SetItem(from0, "volser", volser) ELSE from0
      from2 == IF to_member_name # <<>> THEN SetItem(from1, "member", to_member_name) ELSE from1
      data0 == SetItem(SetItem(SetItem(EmptyDict, "request", "copy"), "from-dataset", from2),
                       "replace", JsonDumpsBool(replace))
      data == IF enq # <<>> THEN SetItem(data0, "enq", enq) ELSE data0
      url == request_endpoint \o <<"ds/">>
               \o (IF volser # <<>> THEN <<"-(">> \o volser \o <<")/">> ELSE <<>>)
               \o to_dataset_name
               \o (IF to_member_name # <<>> THEN <<"(">> \o to_member_name \o <<")">> ELSE <<>>)
  IN  IF enq # <<>> /\ enq \notin CopyEnqValues
      THEN Outcome(InvalidEnqError, EmptyDict, <<>>)
      ELSE Outcome(NoError, EmptyDict,
                   <<perform_request("PUT",
                                     [SetItem(create_custom_request_arguments, "json", data)
                                        EXCEPT !.url = url],
                                     <<200>>)>>)

(***************************************************************************)
(* Requests shared by the other operations                                 *)
(***************************************************************************)
\* Python's None where a str is expected.
None == <<"None">>

_ZOWE_FILES_DEFAULT_ENCODING == <<"utf-8">>

\* The expected_code of a perform_request call that passes none.
DefaultExpectedCode == <<200>>

\* One call of request_handler.perform_streamed_request.
perform_streamed_request(method, custom_args) ==
  [method |-> method, custom_args |-> custom_args, expected_code |-> DefaultExpectedCode,
   streamed |-> TRUE]

\* str.lstrip(chars)
RECURSIVE LStripChars(_, _)
LStripChars(s, chars) ==
  IF s # <<>> /\ Head(s) \in chars THEN LStripChars(Tail(s), chars) ELSE s

\* custom_args["url"] = url
WithUrl(custom_args, url) == [custom_args EXCEPT !.url = url]

\* custom_args["headers"][name] = value
WithHeader(custom_args, name, value) ==
  [custom_args EXCEPT !.headers = SetItem(@, name, value)]

\* "{}ds/{}".format(self.request_endpoint, dataset_name)
DsUrl(dataset_name) == request_endpoint \o <<"d", "s", "/">> \o dataset_name

\* "{}fs/{}".format(self.request_endpoint, filepath_name.lstrip("/"))
FsUrl(filepath_name) ==
  request_endpoint \o <<"f", "s", "/">> \o LStripChars(filepath_name, {"/"})

\* 'text/plain; charset={}'.format(encoding)
TextPlain(encoding) == <<"text/plain; charset=">> \o encoding

\* An operation that returns after the one request req.
Sent(req) == Outcome(NoError, EmptyDict, <<req>>)

(***************************************************************************)
(* USS files                                                               *)
(***************************************************************************)
list_files(path) ==
  LET custom_args == SetItem(create_custom_request_arguments, "params", [path |-> path])
  IN  Sent(perform_request("GET",
                           WithUrl(custom_args, request_endpoint \o <<"f", "s">>),
                           DefaultExpectedCode))

get_file_content(filepath_name) ==
  Sent(perform_request("GET",
                       WithUrl(create_custom_request_arguments,
                               request_endpoint \o <<"f", "s">> \o filepath_name),
                       DefaultExpectedCode))

\* Mutation: the option header is attached whatever `recursive` is.
DeleteUssArguments_Always(custom_args, recursive) ==
  WithHeader(custom_args, "X-IBM-Option", "recursive")

\* if recursive: custom_args["headers"]["X-IBM-Option"] = "recursive"
DeleteUssArguments(custom_args, recursive) ==
  IF recursive THEN WithHeader(custom_args, "X-IBM-Option", "recursive") ELSE custom_args

delete_uss(filepath_name, recursive) ==
  LET custom_args == WithUrl(create_custom_request_arguments, FsUrl(filepath_name))
  IN  Sent(perform_request("DELETE", DeleteUssArguments(custom_args, recursive), <<204>>))

create_uss(file_path, type, mode) ==
  LET custom_args ==
        SetItem(create_custom_request_arguments, "json", [type |-> type, mode |-> mode])
  IN  Sent(perform_request("POST", WithUrl(custom_args, FsUrl(file_path)), <<201>>))

\* custom_args['headers']['Content-Type'] = 'text/plain; charset={}'.format(encoding)
WriteHeaders(custom_args, encoding) ==
  WithHeader(custom_args, "Content-Type", TextPlain(encoding))

\* Mutation: only 201 counts as a successful write.
WriteExpectedCodes_Created == <<201>>

\* expected_code=[204, 201]
WriteExpectedCodes == <<204, 201>>

write_to_uss(filepath_name, data, encoding) ==
  LET custom_args ==
        SetItem(WithUrl(create_custom_request_arguments, FsUrl(filepath_name)), "data", data)
  IN  Sent(perform_request("PUT", WriteHeaders(custom_args, encoding),
                           WriteExpectedCodes))

\* FileNotFound(input_file)
FileNotFound(input_file) == Raise("FileNotFound", input_file)

\* Mutation: the file is written before the local path is looked at.
upload_file_to_uss_WriteFirst(input_file, is_file, file_contents, filepath_name, encoding) ==
  LET written == write_to_uss(filepath_name, file_contents, _ZOWE_FILES_DEFAULT_ENCODING)
  IN  IF is_file
      THEN written
      ELSE Outcome(FileNotFound(input_file), EmptyDict, written.requests)

\* is_file is os.path.isfile(input_file), file_contents what the file holds.
upload_file_to_uss(input_file, is_file, file_contents, filepath_name, encoding) ==
  IF is_file
  THEN write_to_uss(filepath_name, file_contents, _ZOWE_FILES_DEFAULT_ENCODING)
  ELSE Outcome(FileNotFound(input_file), EmptyDict, <<>>)

(***************************************************************************)
(* Data sets                                                               *)
(***************************************************************************)
list_dsn(name_pattern) ==
  LET custom_args ==
        SetItem(create_custom_request_arguments, "params", [dslevel |-> name_pattern])
  IN  Sent(perform_request("GET",
                           WithUrl(custom_args, request_endpoint \o <<"d", "s">>),
                           DefaultExpectedCode))

list_dsn_members(dataset_name, member_pattern, member_start, limit, attributes) ==
  LET url0 == DsUrl(dataset_name) \o <<"/", "m", "e", "m", "b", "e", "r">>
      url1 == IF member_start # None
              THEN url0 \o <<"?", "start", "=">> \o member_start
              ELSE url0
      url == IF member_pattern # None
             THEN url1 \o <<IF member_start # None THEN "&" ELSE "?", "pattern", "=">>
                    \o member_pattern
             ELSE url1
      custom_args ==
        WithHeader(WithHeader(WithUrl(create_custom_request_arguments, url),
                              "X-IBM-Max-Items", FormatInt(limit)),
                   "X-IBM-Attributes", attributes)
  IN  Sent(perform_request("GET", custom_args, DefaultExpectedCode))

get_dsn_content(dataset_name) ==
  Sent(perform_request("GET",
                       WithUrl(create_custom_request_arguments, DsUrl(dataset_name)),
                       DefaultExpectedCode))

get_dsn_content_streamed(dataset_name) ==
  Sent(perform_streamed_request("GET",
                                WithUrl(create_custom_request_arguments, DsUrl(dataset_name))))

\* The request arguments of the two binary reads.
BinaryArguments(dataset_name, with_prefixes) ==
  WithHeader(WithHeader(WithUrl(create_custom_request_arguments, DsUrl(dataset_name)),
                        "Accept", "application/octet-stream"),
             "X-IBM-Data-Type", IF with_prefixes THEN "record" ELSE "binary")

get_dsn_binary_content(dataset_name, with_prefixes) ==
  Sent(perform_request("GET", BinaryArguments(dataset_name, with_prefixes),
                       DefaultExpectedCode))

get_dsn_binary_content_streamed(dataset_name, with_prefixes) ==
  Sent(perform_streamed_request("GET", BinaryArguments(dataset_name, with_prefixes)))

DefaultTypes == {"partitioned", "sequential", "classic", "c", "binary"}

\* Mutation: the partitioned preset has the directory blocks of the classic one.
DefaultPreset_PartitionedDirblk(default_type) ==
  CASE default_type = "partitioned" ->
         [alcunit |-> "CYL", dsorg |-> "PO", primary |-> 1, dirblk |-> 25, recfm |-> "FB",
          blksize |-> 6160, lrecl |-> 80]
    [] default_type = "sequential" ->
         [alcunit |-> "CYL", dsorg |-> "PS", primary |-> 1, recfm |-> "FB",
          blksize |-> 6160, lrecl |-> 80]
    [] default_type = "classic" ->
         [alcunit |-> "CYL", dsorg |-> "PO", primary |-> 1, recfm |-> "FB",
          blksize |-> 6160, lrecl |-> 80, dirblk |-> 25]
    [] default_type = "c" ->
         [dsorg |-> "PO", alcunit |-> "CYL", primary |-> 1, recfm |-> "VB",
          blksize |-> 32760, lrecl |-> 260, dirblk |-> 25]
    [] default_type = "binary" ->
         [dsorg |-> "PO", alcunit |-> "CYL", primary |-> 10, recfm |-> "U",
          blksize |-> 27998, lrecl |-> 27998, dirblk |-> 25]

\* custom_args["json"] for each default_type
DefaultPreset(default_type) ==
  CASE default_type = "partitioned" ->
         [alcunit |-> "CYL", dsorg |-> "PO", primary |-> 1, dirblk |-> 5, recfm |-> "FB",
          blksize |-> 6160, lrecl |-> 80]
    [] default_type = "sequential" ->
         [alcunit |-> "CYL", dsorg |-> "PS", primary |-> 1, recfm |-> "FB",
          blksize |-> 6160, lrecl |-> 80]
    [] default_type = "classic" ->
         [alcunit |-> "CYL", dsorg |-> "PO", primary |-> 1, recfm |-> "FB",
          blksize |-> 6160, lrecl |-> 80, dirblk |-> 25]
    [] default_type = "c" ->
         [dsorg |-> "PO", alcunit |-> "CYL", primary |-> 1, recfm |-> "VB",
          blksize |-> 32760, lrecl |-> 260, dirblk |-> 25]
    [] default_type = "binary" ->
         [dsorg |-> "PO", alcunit |-> "CYL", primary |-> 10, recfm |-> "U",
          blksize |-> 27998, lrecl |-> 27998, dirblk |-> 25]

InvalidDefaultTypeError == Raise("ValueError", <<"Invalid type for default data set.">>)

create_default_data_set(dataset_name, default_type) ==
  IF default_type \notin DefaultTypes
  THEN Outcome(InvalidDefaultTypeError, EmptyDict, <<>>)
  ELSE LET custom_args ==
             SetItem(create_custom_request_arguments, "json", DefaultPreset(default_type))
       IN  Sent(perform_request("POST", WithUrl(custom_args, DsUrl(dataset_name)), <<201>>))

write_to_dsn(dataset_name, data, encoding) ==
  LET custom_args ==
        SetItem(WithUrl(create_custom_request_arguments, DsUrl(dataset_name)), "data", data)
  IN  Sent(perform_request("PUT", WriteHeaders(custom_args, encoding),
                           WriteExpectedCodes))

\* open(input_file, 'rb')
OpenFile(input_file) == [file |-> input_file, mode |-> "rb"]

upload_file_to_dsn(input_file, is_file, dataset_name, encoding) ==
  IF is_file
  THEN write_to_dsn(dataset_name, OpenFile(input_file), _ZOWE_FILES_DEFAULT_ENCODING)
  ELSE Outcome(FileNotFound(input_file), EmptyDict, <<>>)

DeleteDataSetUrl(dataset_name, volume, member_name) ==
  LET name == IF member_name # None
              THEN dataset_name \o <<"(">> \o member_name \o <<")">>
              ELSE dataset_name
  IN  IF volume # None
      THEN request_endpoint \o <<"d", "s", "/", "-">> \o volume \o <<"/">> \o name
      ELSE DsUrl(name)

delete_data_set(dataset_name, volume, member_name) ==
  Sent(perform_request("DELETE",
                       WithUrl(create_custom_request_arguments,
                               DeleteDataSetUrl(dataset_name, volume, member_name)),
                       <<200, 202, 204>>))

delete_migrated_data_set(dataset_name, wait, purge) ==
  LET data == [request |-> "hdelete", wait |-> JsonDumpsBool(wait),
               purge |-> JsonDumpsBool(purge)]
      custom_args == SetItem(create_custom_request_arguments, "json", data)
  IN  Sent(perform_request("PUT", WithUrl(custom_args, DsUrl(dataset_name)), <<200>>))

rename_dataset(before_dataset_name, after_dataset_name) ==
  LET data == SetItem(SetItem(EmptyDict, "request", "rename"), "from-dataset",
                      [dsn |-> Strip(before_dataset_name)])
      custom_args == SetItem(create_custom_request_arguments, "json", data)
  IN  Sent(perform_request("PUT", WithUrl(custom_args, DsUrl(Strip(after_dataset_name))),
                           <<200>>))

(***************************************************************************)
(* File systems                                                            *)
(***************************************************************************)
MfsUrl(file_system_name) == request_endpoint \o <<"m", "f", "s", "/">> \o file_system_name

delete_zFS_file_system(file_system_name) ==
  Sent(perform_request("DELETE",
                       WithUrl(create_custom_request_arguments,
                               request_endpoint \o <<"mfs/zfs/">> \o file_system_name),
                       <<204>>))

\* Mutation: a mount point the mapping already holds is kept.
MountOptions_KeepMountPoint(given, mount_point) ==
  LET o == SetItem(given, "action", "mount")
  IN  IF Has(given, "mount-point") THEN o ELSE SetItem(o, "mount-point", mount_point)

\* options["action"] = "mount"; options["mount-point"] = mount_point
MountOptions(given, mount_point) ==
  SetItem(SetItem(given, "action", "mount"), "mount-point", mount_point)

mount_file_system(file_system_name, mount_point, given, encoding) ==
  LET written == MountOptions(given, mount_point)
      custom_args ==
        SetItem(WithUrl(create_custom_request_arguments, MfsUrl(file_system_name)),
                "json", written)
  IN  Outcome(NoError, written,
              <<perform_request("PUT", WriteHeaders(custom_args, encoding), <<204>>)>>)

\* options["action"] = "unmount"
UnmountOptions(given) == SetItem(given, "action", "unmount")

unmount_file_system(file_system_name, given, encoding) ==
  LET written == UnmountOptions(given)
      custom_args ==
        SetItem(WithUrl(create_custom_request_arguments, MfsUrl(file_system_name)),
                "json", written)
  IN  Outcome(NoError, written,
              <<perform_request("PUT", WriteHeaders(custom_args, encoding), <<204>>)>>)

list_unix_file_systems(file_path_name, file_system_name) ==
  LET custom_args ==
        SetItem(create_custom_request_arguments, "params",
                [path |-> file_path_name, fsname |-> file_system_name])
  IN  Sent(perform_request("GET",
                           WithUrl(custom_args, request_endpoint \o <<"m", "f", "s">>),
                           <<200>>))

(***************************************************************************)
(* The callers' inputs                                                     *)
(***************************************************************************)
DatasetNames == {<<"M", "Y", ".", "D", "S">>}

DataSetOptionKeys ==
  {"like", "primary", "secondary", "lrecl", "dsorg", "alcunit", "recfm", "blksize", "dirblk"}

DataSetOptionValues(opt) ==
  CASE opt = "like"      -> {"MODEL.DS"}
    [] opt = "primary"   -> {-15, 9, 100} \cup (MaxPrimary .. MaxPrimary + Excess)
    [] opt = "secondary" -> {5} \cup (MaxSecondary + 1 .. MaxSecondary + Excess)
    [] opt = "lrecl"     -> {80}
    [] opt = "dsorg"     -> {"PO", "PS", "XX"}
    [] opt = "alcunit"   -> {"CYL", "BLK"}
    [] opt = "recfm"     -> {"VB", "Z"}
    [] opt = "blksize"   -> {6160}
    [] opt = "dirblk"    -> {0, 5}

\* Every mapping with exactly the keys K.
RECURSIVE DictsOver(_)
DictsOver(K) ==
  IF K = {}
  THEN {EmptyDict}
  ELSE LET k == CHOOSE x \in K : TRUE
       IN  {SetItem(d, k, v) : d \in DictsOver(K \ {k}), v \in DataSetOptionValues(k)}

DataSetOptions == UNION {DictsOver(K) : K \in SUBSET DataSetOptionKeys}

FileSystemNames == {<<"Z", "F", "S">>}

ZfsOptionValues(key) ==
  CASE key = "perms"   -> {-1, 0, 100, 777, 778}
    [] key = "cylsPri" -> {16777213} \cup (MaxAllocationQuantity .. MaxAllocationQuantity + Excess)
    [] key = "cylsSec" -> {16777213} \cup (MaxAllocationQuantity .. MaxAllocationQuantity + Excess)
    [] key = "timeout" -> {20}

ZfsOptionKeys == {"perms", "cylsPri", "cylsSec", "timeout"}

ZfsItems == UNION {{<<key, value>> : value \in ZfsOptionValues(key)} : key \in ZfsOptionKeys}

\* Every mapping over the keys, in every insertion order.
ZfsOptions ==
  UNION {{items \in [1 .. n -> ZfsItems] :
            \A i, j \in 1 .. n : i # j => items[i][1] # items[j][1]} : n \in 0 .. 3}

MemberNames == {<<"O", "L", "D">>, <<" ", "N", "E", "W", " ">>}

RenameNames == {<<"M", "Y", ".", "D", "S">>, <<" ", "M", "Y", ".", "D", "S">>}

EnqValues ==
  {<<>>, SHR, SHRW, EXCLU, <<"R", "A", "N", "D", "O", "M">>, SHRW \o <<" ">>, <<" ">>}

Volsers == {<<>>, <<"z", "m", "f", "0", "4", "6">>}

CopyMembers == {<<>>, <<"M", "E", "M", "B", "E", "R">>}

UssPaths == {<<"/", "u", "/", "f">>, <<"u", "/", "f">>, <<"/", "/", "u">>}

Encodings == {_ZOWE_FILES_DEFAULT_ENCODING, <<"IBM-1047">>}

LocalFiles == {<<"local.txt">>}

UssTypes == {"file", "dir"}

UssModes == {None, <<"rwxr-xr-x">>}

DefaultTypeNames == DefaultTypes \cup {"pds", ""}

Volumes == {None, <<"z", "m", "f", "0", "4", "6">>}

DeleteMembers == {None, <<"M", "E", "M">>}

MemberPatterns == {None, <<"A", "*">>}

MemberStarts == {None, <<"A">>}

Limits == {1000, 5}

Attributes == {"member", "base"}

MountPoints == {<<"/", "m", "1">>, <<"/", "m", "2">>}

MountOptionsGiven ==
  {EmptyDict,
   SetItem(SetItem(EmptyDict, "fs-type", "zFS"), "mode", "rdonly"),
   SetItem(SetItem(EmptyDict, "action", "unmount"), "mount-point", <<"/", "o", "l", "d">>)}


(***************************************************************************)
(* State: the call in progress on the Files object and what it did          *)
(***************************************************************************)
VARIABLES
  call,       \* the operation called and its arguments as passed (`options` the
              \* default dict as it was, and omitted TRUE, when left out); op ""
              \* between calls
  raised,     \* the exception the call raised, NoError if it returned
  options,    \* the option mapping the call worked on, as the call left it
  requests,   \* the calls of the request handler the operation made
  ncalls      \* the operations called on the object so far

vars == <<call, raised, options, requests, ncalls, self_default_headers, default_options>>

NoCall == [op |-> ""]

\* def create_data_set(self, dataset_name, options = {}) and the like: one dict
\* object per method, made when the class is defined.
InitialDefaults ==
  [create_data_set |-> EmptyDict, create_zFS_file_system |-> <<>>,
   mount_file_system |-> EmptyDict, unmount_file_system |-> EmptyDict]

Init ==
  /\ call = NoCall
  /\ raised = NoError
  /\ options = EmptyDict
  /\ requests = <<>>
  /\ ncalls = 0
  /\ self_default_headers = default_headers
  /\ default_options = InitialDefaults

\* The call c ends with the outcome out.
Return(c, out) ==
  /\ ncalls < MaxCalls
  /\ ncalls' = ncalls + 1
  /\ call' = c
  /\ raised' = out.raised
  /\ options' = out.options
  /\ requests' = out.requests
  /\ self_default_headers' =
       IF out.requests = <<>>
       THEN self_default_headers
       ELSE KeptDefaultHeaders(self_default_headers, out.requests[1].custom_args.headers)

\* A call that was passed its options.
Finish(c, out) ==
  /\ Return(c, out)
  /\ UNCHANGED default_options

\* A call that left `options` out: it worked on the method's default dict
\* object, which keeps what the call wrote into it.
FinishDefault(c, out) ==
  /\ Return(c, out)
  /\ default_options' = [default_options EXCEPT ![c.op] = out.options]

CreateDataSet ==
  /\ call = NoCall
  /\ \E dataset_name \in DatasetNames, opts \in DataSetOptions :
       Finish([op |-> "create_data_set", dataset_name |-> dataset_name, options |-> opts],
              create_data_set(dataset_name, opts))

CreateZfsFileSystem ==
  /\ call = NoCall
  /\ \E file_system_name \in FileSystemNames, opts \in ZfsOptions :
       Finish([op |-> "create_zFS_file_system", file_system_name |-> file_system_name,
               options |-> opts],
              create_zFS_file_system(file_system_name, opts))

RenameDatasetMember ==
  /\ call = NoCall
  /\ \E dataset_name \in RenameNames, before \in MemberNames, after \in MemberNames,
        enq \in EnqValues :
       Finish([op |-> "rename_dataset_member", dataset_name |-> dataset_name,
               before_member_name |-> before, after_member_name |-> after, enq |-> enq],
              rename_dataset_member(dataset_name, before, after, enq))

CopyFromDataset ==
  /\ call = NoCall
  /\ \E from \in DatasetNames, to \in DatasetNames, member \in CopyMembers,
        volser \in Volsers, enq \in EnqValues, replace \in BOOLEAN, alias \in BOOLEAN :
       Finish([op |-> "copy_from_dataset", from_dataset_name |-> from,
               to_dataset_name |-> to, to_member_name |-> member, volser |-> volser,
               enq |-> enq, replace |-> replace, alias |-> alias],
              copy_from_dataset(from, to, member, volser, enq, replace, alias))

\* create_data_set(dataset_name): `options` is the method's default dict.
CreateDataSetDefault ==
  /\ call = NoCall
  /\ \E dataset_name \in DatasetNames :
       LET out == create_data_set(dataset_name, default_options.create_data_set)
       IN  FinishDefault([op |-> "create_data_set", dataset_name |-> dataset_name,
                          options |-> default_options.create_data_set,
                          omitted |-> TRUE], out)

\* create_zFS_file_system(file_system_name): `options` is the method's default dict.
CreateZfsFileSystemDefault ==
  /\ call = NoCall
  /\ \E file_system_name \in FileSystemNames :
       LET out == create_zFS_file_system(file_system_name,
                                         default_options.create_zFS_file_system)
       IN  FinishDefault([op |-> "create_zFS_file_system",
                          file_system_name |-> file_system_name,
                          options |-> default_options.create_zFS_file_system,
                          omitted |-> TRUE], out)

CreateDefaultDataSet ==
  /\ call = NoCall
  /\ \E dataset_name \in DatasetNames, default_type \in DefaultTypeNames :
       Finish([op |-> "create_default_data_set", dataset_name |-> dataset_name,
               default_type |-> default_type],
              create_default_data_set(dataset_name, default_type))

ListFiles ==
  /\ call = NoCall
  /\ \E path \in UssPaths :
       Finish([op |-> "list_files", path |-> path], list_files(path))

GetFileContent ==
  /\ call = NoCall
  /\ \E filepath_name \in UssPaths :
       Finish([op |-> "get_file_content", filepath_name |-> filepath_name],
              get_file_content(filepath_name))

DeleteUss ==
  /\ call = NoCall
  /\ \E filepath_name \in UssPaths, recursive \in BOOLEAN :
       Finish([op |-> "delete_uss", filepath_name |-> filepath_name,
               recursive |-> recursive],
              delete_uss(filepath_name, recursive))

CreateUss ==
  /\ call = NoCall
  /\ \E file_path \in UssPaths, type \in UssTypes, mode \in UssModes :
       Finish([op |-> "create_uss", file_path |-> file_path, type |-> type,
               mode |-> mode],
              create_uss(file_path, type, mode))

WriteToUss ==
  /\ call = NoCall
  /\ \E filepath_name \in UssPaths, encoding \in Encodings :
       Finish([op |-> "write_to_uss", filepath_name |-> filepath_name, data |-> "data",
               encoding |-> encoding],
              write_to_uss(filepath_name, "data", encoding))

UploadFileToUss ==
  /\ call = NoCall
  /\ \E input_file \in LocalFiles, is_file \in BOOLEAN, filepath_name \in UssPaths,
        encoding \in Encodings :
       Finish([op |-> "upload_file_to_uss", input_file |-> input_file,
               is_file |-> is_file, filepath_name |-> filepath_name,
               encoding |-> encoding],
              upload_file_to_uss(input_file, is_file, "data", filepath_name, encoding))

ListDsn ==
  /\ call = NoCall
  /\ \E name_pattern \in DatasetNames :
       Finish([op |-> "list_dsn", name_pattern |-> name_pattern], list_dsn(name_pattern))

ListDsnMembers ==
  /\ call = NoCall
  /\ \E dataset_name \in DatasetNames, member_pattern \in MemberPatterns,
        member_start \in MemberStarts, limit \in Limits, attributes \in Attributes :
       Finish([op |-> "list_dsn_members", dataset_name |-> dataset_name,
               member_pattern |-> member_pattern, member_start |-> member_start,
               limit |-> limit, attributes |-> attributes],
              list_dsn_members(dataset_name, member_pattern, member_start, limit,
                               attributes))

GetDsnContent ==
  /\ call = NoCall
  /\ \E dataset_name \in DatasetNames, streamed \in BOOLEAN :
       Finish([op |-> IF streamed THEN "get_dsn_content_streamed" ELSE "get_dsn_content",
               dataset_name |-> dataset_name],
              IF streamed
              THEN get_dsn_content_streamed(dataset_name)
              ELSE get_dsn_content(dataset_name))

GetDsnBinaryContent ==
  /\ call = NoCall
  /\ \E dataset_name \in DatasetNames, with_prefixes \in BOOLEAN, streamed \in BOOLEAN :
       Finish([op |-> IF streamed THEN "get_dsn_binary_content_streamed"
                                  ELSE "get_dsn_binary_content",
               dataset_name |-> dataset_name, with_prefixes |-> with_prefixes],
              IF streamed
              THEN get_dsn_binary_content_streamed(dataset_name, with_prefixes)
              ELSE get_dsn_binary_content(dataset_name, with_prefixes))

WriteToDsn ==
  /\ call = NoCall
  /\ \E dataset_name \in DatasetNames, encoding \in Encodings :
       Finish([op |-> "write_to_dsn", dataset_name |-> dataset_name, data |-> "data",
               encoding |-> encoding],
              write_to_dsn(dataset_name, "data", encoding))

UploadFileToDsn ==
  /\ call = NoCall
  /\ \E input_file \in LocalFiles, is_file \in BOOLEAN, dataset_name \in DatasetNames,
        encoding \in Encodings :
       Finish([op |-> "upload_file_to_dsn", input_file |-> input_file,
               is_file |-> is_file, dataset_name |-> dataset_name,
               encoding |-> encoding],
              upload_file_to_dsn(input_file, is_file, dataset_name, encoding))

DeleteDataSet ==
  /\ call = NoCall
  /\ \E dataset_name \in DatasetNames, volume \in Volumes, member_name \in DeleteMembers :
       Finish([op |-> "delete_data_set", dataset_name |-> dataset_name,
               volume |-> volume, member_name |-> member_name],
              delete_data_set(dataset_name, volume, member_name))

DeleteMigratedDataSet ==
  /\ call = NoCall
  /\ \E dataset_name \in DatasetNames, wait \in BOOLEAN, purge \in BOOLEAN :
       Finish([op |-> "delete_migrated_data_set", dataset_name |-> dataset_name,
               wait |-> wait, purge |-> purge],
              delete_migrated_data_set(dataset_name, wait, purge))

RenameDataset ==
  /\ call = NoCall
  /\ \E before \in RenameNames, after \in RenameNames :
       Finish([op |-> "rename_dataset", before_dataset_name |-> before,
               after_dataset_name |-> after],
              rename_dataset(before, after))

DeleteZfsFileSystem ==
  /\ call = NoCall
  /\ \E file_system_name \in FileSystemNames :
       Finish([op |-> "delete_zFS_file_system", file_system_name |-> file_system_name],
              delete_zFS_file_system(file_system_name))

MountFileSystem ==
  /\ call = NoCall
  /\ \E file_system_name \in FileSystemNames, mount_point \in MountPoints,
        opts \in MountOptionsGiven, encoding \in Encodings :
       Finish([op |-> "mount_file_system", file_system_name |-> file_system_name,
               mount_point |-> mount_point, options |-> opts, encoding |-> encoding],
              mount_file_system(file_system_name, mount_point, opts, encoding))

\* mount_file_system(file_system_name, mount_point): `options` is the default dict.
MountFileSystemDefault ==
  /\ call = NoCall
  /\ \E file_system_name \in FileSystemNames, mount_point \in MountPoints,
        encoding \in Encodings :
       FinishDefault([op |-> "mount_file_system", file_system_name |-> file_system_name,
                      mount_point |-> mount_point,
                      options |-> default_options.mount_file_system,
                      encoding |-> encoding, omitted |-> TRUE],
                     mount_file_system(file_system_name, mount_point,
                                       default_options.mount_file_system, encoding))

UnmountFileSystem ==
  /\ call = NoCall
  /\ \E file_system_name \in FileSystemNames, opts \in MountOptionsGiven,
        encoding \in Encodings :
       Finish([op |-> "unmount_file_system", file_system_name |-> file_system_name,
               options |-> opts, encoding |-> encoding],
              unmount_file_system(file_system_name, opts, encoding))

\* unmount_file_system(file_system_name): `options` is the default dict.
UnmountFileSystemDefault ==
  /\ call = NoCall
  /\ \E file_system_name \in FileSystemNames, encoding \in Encodings :
       FinishDefault([op |-> "unmount_file_system", file_system_name |-> file_system_name,
                      options |-> default_options.unmount_file_system,
                      encoding |-> encoding, omitted |-> TRUE],
                     unmount_file_system(file_system_name,
                                         default_options.unmount_file_system, encoding))

ListUnixFileSystems ==
  /\ call = NoCall
  /\ \E file_path_name \in {None} \cup UssPaths, file_system_name \in {None} \cup FileSystemNames :
       Finish([op |-> "list_unix_file_systems", file_path_name |-> file_path_name,
               file_system_name |-> file_system_name],
              list_unix_file_systems(file_path_name, file_system_name))

\* The caller has the outcome and installs a fresh request handler mock.
NextCase ==
  /\ call # NoCall
  /\ call' = NoCall
  /\ raised' = NoError
  /\ options' = EmptyDict
  /\ requests' = <<>>
  /\ UNCHANGED <<ncalls, self_default_headers, default_options>>

Next ==
  \/ CreateDataSet
  \/ CreateZfsFileSystem
  \/ RenameDatasetMember
  \/ CopyFromDataset
  \/ CreateDataSetDefault
  \/ CreateZfsFileSystemDefault
  \/ CreateDefaultDataSet
  \/ ListFiles
  \/ GetFileContent
  \/ DeleteUss
  \/ CreateUss
  \/ WriteToUss
  \/ UploadFileToUss
  \/ ListDsn
  \/ ListDsnMembers
  \/ GetDsnContent
  \/ GetDsnBinaryContent
  \/ WriteToDsn
  \/ UploadFileToDsn
  \/ DeleteDataSet
  \/ DeleteMigratedDataSet
  \/ RenameDataset
  \/ DeleteZfsFileSystem
  \/ MountFileSystem
  \/ MountFileSystemDefault
  \/ UnmountFileSystem
  \/ UnmountFileSystemDefault
  \/ ListUnixFileSystems
  \/ NextCase

Spec == Init /\ [][Next]_vars

(***************************************************************************)
(* Properties of create_data_set                                           *)
(***************************************************************************)
IsCreateDataSet == call.op = "create_data_set"

\* The JSON body of the request the call sent.
Body == requests[1].custom_args.json

\* The exceptions the validation raises for a bad value: a bare ValueError or
\* KeyError (any ValueError counted in).
IsInvalidOptionValue(err) == err.cls \in {"ValueError", "KeyError"}

\* Every supplied value is one the rules allow.
ValidValues(o) ==
  /\ Has(o, "dsorg") => o["dsorg"] \in {"PO", "PS"}
  /\ Has(o, "alcunit") => o["alcunit"] \in {"CYL", "TRK"}
  /\ Has(o, "recfm") => o["recfm"] \in {"F", "FB", "V", "VB", "U"}
  /\ Has(o, "primary") => o["primary"] <= 16777215
  /\ Has(o, "secondary") => o["secondary"] <= 16777215
  /\ (Has(o, "dirblk") /\ Has(o, "dsorg") /\ o["dsorg"] = "PS") => o["dirblk"] = 0
  /\ (Has(o, "dirblk") /\ Has(o, "dsorg") /\ o["dsorg"] = "PO") => o["dirblk"] # 0

\* C1: a create_data_set call whose mapping has no 'like' and lacks 'primary'
\* or 'lrecl' raises the missing-required-option error and hands no request
\* to the request handler.
C1_MissingRequiredFails ==
  (/\ IsCreateDataSet
   /\ ~Has(call.options, "like")
   /\ (~Has(call.options, "primary") \/ ~Has(call.options, "lrecl")))
  => (raised = MissingRequiredOptionError /\ requests = <<>>)

C1_Witness ==
  /\ IsCreateDataSet
  /\ ~Has(call.options, "like")
  /\ Has(call.options, "primary")
  /\ ~Has(call.options, "lrecl")
  /\ raised = MissingRequiredOptionError
  /\ requests = <<>>

\* C2: a create_data_set call without 'like', with 'primary' and 'lrecl' and
\* only valid values sends one POST whose JSON body has alcunit TRK where
\* alcunit was unset, recfm F where recfm was unset, blksize equal to lrecl
\* where blksize was unset, and every supplied option with the caller's value.
C2_DefaultsFilled ==
  (/\ IsCreateDataSet
   /\ ~Has(call.options, "like")
   /\ Has(call.options, "primary")
   /\ Has(call.options, "lrecl")
   /\ ValidValues(call.options))
  => (/\ raised = NoError
      /\ Len(requests) = 1
      /\ requests[1].method = "POST"
      /\ ~Has(call.options, "alcunit") => (Has(Body, "alcunit") /\ Body["alcunit"] = "TRK")
      /\ ~Has(call.options, "recfm") => (Has(Body, "recfm") /\ Body["recfm"] = "F")
      /\ ~Has(call.options, "blksize")
           => (Has(Body, "blksize") /\ Body["blksize"] = call.options["lrecl"])
      /\ \A k \in DOMAIN call.options : Has(Body, k) /\ Body[k] = call.options[k])

C2_Witness ==
  /\ IsCreateDataSet
  /\ DOMAIN call.options = {"primary", "lrecl", "dsorg"}
  /\ raised = NoError
  /\ Len(requests) = 1
  /\ Body["alcunit"] = "TRK"
  /\ Body["recfm"] = "F"
  /\ Body["blksize"] = 80
  /\ Body["dsorg"] = call.options["dsorg"]

\* C3: a create_data_set call whose 'primary' is greater than 16,777,215 fails
\* with an invalid-option-value error and sends no request, whatever the other
\* options are, 'like' included.
C3_PrimaryTooLargeFails ==
  (/\ IsCreateDataSet
   /\ Has(call.options, "primary")
   /\ call.options["primary"] > 16777215)
  => (IsInvalidOptionValue(raised) /\ requests = <<>>)

\* C4: in create_data_set, with 'primary' present and 'secondary' absent the
\* 'secondary' sent in the request is floor(primary/10); a supplied 'secondary'
\* is sent as given; a 'secondary' greater than 16,777,215 makes the call fail
\* with an invalid-option-value error.
C4_SecondaryDerived ==
  IsCreateDataSet =>
    /\ (Has(call.options, "primary") /\ ~Has(call.options, "secondary") /\ requests # <<>>)
         => (Has(Body, "secondary") /\ Body["secondary"] = call.options["primary"] \div 10)
    /\ (Has(call.options, "secondary") /\ requests # <<>>)
         => Body["secondary"] = call.options["secondary"]
    /\ (Has(call.options, "secondary") /\ call.options["secondary"] > 16777215)
         => (IsInvalidOptionValue(raised) /\ requests = <<>>)

\* C5: a create_data_set call with dsorg PS and a dirblk other than 0 fails,
\* and one with dsorg PO and dirblk 0 fails; every other combination of dsorg
\* and dirblk passes the dirblk check.
DirblkConflict(o) ==
  /\ Has(o, "dirblk")
  /\ Has(o, "dsorg")
  /\ \/ o["dsorg"] = "PS" /\ o["dirblk"] # 0
     \/ o["dsorg"] = "PO" /\ o["dirblk"] = 0

C5_DirblkConsistency ==
  IsCreateDataSet =>
    /\ DirblkConflict(call.options) => (raised # NoError /\ requests = <<>>)
    /\ (/\ ~DirblkConflict(call.options)
        /\ ValidValues(call.options)
        /\ Has(call.options, "primary")
        /\ Has(call.options, "lrecl"))
         => (raised = NoError /\ Len(requests) = 1)

\* C6: every request body create_data_set hands to the request handler has
\* dsorg, when present, PO or PS, alcunit CYL or TRK and recfm one of F, FB, V,
\* VB, U; a call whose mapping breaks one of these fails with an
\* invalid-option-value error and sends nothing, also when it carries 'like'.
EnumsValid(o) ==
  /\ Has(o, "dsorg") => o["dsorg"] \in {"PO", "PS"}
  /\ Has(o, "alcunit") => o["alcunit"] \in {"CYL", "TRK"}
  /\ Has(o, "recfm") => o["recfm"] \in {"F", "FB", "V", "VB", "U"}

C6_EnumInvariants ==
  IsCreateDataSet =>
    /\ \A i \in 1 .. Len(requests) : EnumsValid(requests[i].custom_args.json)
    /\ ~EnumsValid(call.options) => (IsInvalidOptionValue(raised) /\ requests = <<>>)

(***************************************************************************)
(* Properties of create_zFS_file_system                                    *)
(***************************************************************************)
IsCreateZfs == call.op = "create_zFS_file_system"

HasItem(items, key) == \E i \in 1 .. Len(items) : items[i][1] = key

ItemIndex(items, key) == CHOOSE i \in 1 .. Len(items) : items[i][1] = key

BadPermsAt(items, i) ==
  items[i][1] = "perms" /\ (items[i][2] < 0 \/ items[i][2] > 777)

BadCylsAt(items, i) ==
  items[i][1] \in {"cylsPri", "cylsSec"} /\ items[i][2] > 16777215

PermsError(value) ==
  [cls |-> "InvalidPermsOption",
   message |-> <<"Invalid zos-files create command 'perms' option: ">> \o FormatInt(value)]

AllocationError ==
  [cls |-> "MaxAllocationQuantityExceeded",
   message |-> <<"Maximum allocation quantity of ", "1", "6", "7", "7", "7", "2", "1", "5",
                 " exceeded">>]

\* C7 as stated: create_zFS_file_system accepts 'perms' exactly when
\* 0 <= perms <= 777; any other perms value fails with InvalidPermsOption
\* carrying the value, and no request is built.
C7_Original ==
  (IsCreateZfs /\ HasItem(call.options, "perms"))
  => LET i == ItemIndex(call.options, "perms")
     IN  IF BadPermsAt(call.options, i)
         THEN raised = PermsError(call.options[i][2]) /\ requests = <<>>
         ELSE raised.cls # "InvalidPermsOption"

\* C7 (amended): create_zFS_file_system accepts 'perms' exactly when
\* 0 <= perms <= 777; any other perms value makes the call fail with no
\* request built, with InvalidPermsOption carrying the value unless a cylsPri
\* or cylsSec above the maximum comes earlier in the mapping's iteration
\* order, and then with MaxAllocationQuantityExceeded.
C7_PermsRange ==
  (IsCreateZfs /\ HasItem(call.options, "perms"))
  => LET i == ItemIndex(call.options, "perms")
     IN  IF BadPermsAt(call.options, i)
         THEN /\ requests = <<>>
              /\ IF \E j \in 1 .. i - 1 : BadCylsAt(call.options, j)
                 THEN raised = AllocationError
                 ELSE raised = PermsError(call.options[i][2])
         ELSE raised.cls # "InvalidPermsOption"

C7_Witness ==
  /\ IsCreateZfs
  /\ call.options = <<<<"perms", -1>>, <<"cylsPri", 16777213>>, <<"cylsSec", 16777215>>>>
  /\ raised = [cls |-> "InvalidPermsOption",
               message |-> <<"Invalid zos-files create command 'perms' option: ", "-", "1">>]
  /\ requests = <<>>

\* The call sent exactly one POST expecting status 201.
OnePostExpecting201 ==
  /\ raised = NoError
  /\ Len(requests) = 1
  /\ requests[1].method = "POST"
  /\ requests[1].expected_code = <<201>>

\* C8 as stated: create_zFS_file_system fails with
\* MaxAllocationQuantityExceeded and builds no request whenever cylsPri or
\* cylsSec is greater than 16777215; quantities up to the maximum are accepted
\* and exactly one POST expecting status 201 is sent.
C8_Original ==
  IsCreateZfs =>
    /\ (\E i \in 1 .. Len(call.options) : BadCylsAt(call.options, i))
         => (raised = AllocationError /\ requests = <<>>)
    /\ (/\ \A i \in 1 .. Len(call.options) : ~BadCylsAt(call.options, i)
        /\ \A i \in 1 .. Len(call.options) : ~BadPermsAt(call.options, i)
        /\ HasItem(call.options, "cylsPri") \/ HasItem(call.options, "cylsSec"))
         => OnePostExpecting201

\* C8 (amended): whenever cylsPri or cylsSec is greater than 16777215 the call
\* fails and builds no request, with MaxAllocationQuantityExceeded unless an
\* out-of-range 'perms' comes earlier in the mapping's iteration order than
\* the first such quantity, and then with InvalidPermsOption; with quantities
\* up to the maximum (and 'perms' in range) exactly one POST expecting status
\* 201 is sent.
C8_AllocationLimit ==
  IsCreateZfs =>
    /\ (\E i \in 1 .. Len(call.options) : BadCylsAt(call.options, i))
         => LET first == CHOOSE i \in 1 .. Len(call.options) :
                           /\ BadCylsAt(call.options, i)
                           /\ \A j \in 1 .. i - 1 : ~BadCylsAt(call.options, j)
            IN  /\ requests = <<>>
                /\ IF \E j \in 1 .. first - 1 : BadPermsAt(call.options, j)
                   THEN raised.cls = "InvalidPermsOption"
                   ELSE raised = AllocationError
    /\ (/\ \A i \in 1 .. Len(call.options) : ~BadCylsAt(call.options, i)
        /\ \A i \in 1 .. Len(call.options) : ~BadPermsAt(call.options, i)
        /\ HasItem(call.options, "cylsPri") \/ HasItem(call.options, "cylsSec"))
         => OnePostExpecting201

C8_Witness ==
  /\ IsCreateZfs
  /\ call.options = <<<<"perms", 100>>, <<"cylsPri", 16777216>>, <<"cylsSec", 16777215>>>>
  /\ raised = AllocationError
  /\ requests = <<>>

(***************************************************************************)
(* Properties of rename_dataset_member and copy_from_dataset               *)
(***************************************************************************)
IsRenameMember == call.op = "rename_dataset_member"

IsCopyFromDataset == call.op = "copy_from_dataset"

\* What the call does with an accepted or empty enq: one request, whose body
\* carries the enq inside "from-dataset", or no enq at all.
RenameEnqPlacement ==
  /\ call.enq \in {SHRW, EXCLU}
       => /\ raised = NoError
          /\ Len(requests) = 1
          /\ Has(Body["from-dataset"], "enq")
          /\ Body["from-dataset"]["enq"] = call.enq
  /\ call.enq = <<>>
       => /\ raised = NoError
          /\ Len(requests) = 1
          /\ ~Has(Body["from-dataset"], "enq")
          /\ ~Has(Body, "enq")

\* C9 as stated: rename_dataset_member with a non-empty enq other than SHRW or
\* EXCLU fails with InvalidValuesForEnq, message "Invalid value. Valid options
\* are SHRW or EXCLU.", and sends no request; SHRW or EXCLU is embedded in the
\* body's from-dataset entry; an empty enq sends no enq key.
C9_Original ==
  IsRenameMember =>
    /\ (call.enq # <<>> /\ call.enq \notin {SHRW, EXCLU})
         => /\ raised = [cls |-> "InvalidValuesForEnq",
                         message |-> <<"Invalid value. Valid options are SHRW or EXCLU.">>]
            /\ requests = <<>>
    /\ RenameEnqPlacement

\* C9 (amended): rename_dataset_member with a non-empty enq other than SHRW or
\* EXCLU fails with ValueError, message "Invalid value for enq.", and sends no
\* request; SHRW or EXCLU is embedded in the body's from-dataset entry; an
\* empty enq sends no enq key.
C9_RenameEnq ==
  IsRenameMember =>
    /\ (call.enq # <<>> /\ call.enq \notin {SHRW, EXCLU})
         => /\ raised = [cls |-> "ValueError", message |-> <<"Invalid value for enq.">>]
            /\ requests = <<>>
    /\ RenameEnqPlacement

C9_Witness ==
  /\ IsRenameMember
  /\ call.enq = <<"R", "A", "N", "D", "O", "M">>
  /\ raised = [cls |-> "ValueError", message |-> <<"Invalid value for enq.">>]
  /\ requests = <<>>

\* The call sent a single PUT expecting status 200 with the enq in its body.
OnePutWithEnq ==
  /\ raised = NoError
  /\ Len(requests) = 1
  /\ requests[1].method = "PUT"
  /\ requests[1].expected_code = <<200>>
  /\ Has(Body, "enq")
  /\ Body["enq"] = call.enq

IsCreateDefaultDataSet == call.op = "create_default_data_set"

\* The call sent exactly one request, with this method and these expected codes.
OneRequest(method, expected_code) ==
  /\ Len(requests) = 1
  /\ requests[1].method = method
  /\ requests[1].expected_code = expected_code

\* The five presets, as the documentation of the five types gives them.
PresetBodies ==
  [partitioned |-> [alcunit |-> "CYL", dsorg |-> "PO", primary |-> 1, dirblk |-> 5,
                    recfm |-> "FB", blksize |-> 6160, lrecl |-> 80],
   sequential  |-> [alcunit |-> "CYL", dsorg |-> "PS", primary |-> 1,
                    recfm |-> "FB", blksize |-> 6160, lrecl |-> 80],
   classic     |-> [alcunit |-> "CYL", dsorg |-> "PO", primary |-> 1, dirblk |-> 25,
                    recfm |-> "FB", blksize |-> 6160, lrecl |-> 80],
   c           |-> [alcunit |-> "CYL", dsorg |-> "PO", primary |-> 1, dirblk |-> 25,
                    recfm |-> "VB", blksize |-> 32760, lrecl |-> 260],
   binary      |-> [alcunit |-> "CYL", dsorg |-> "PO", primary |-> 10, dirblk |-> 25,
                    recfm |-> "U", blksize |-> 27998, lrecl |-> 27998]]

\* C11: create_default_data_set with one of the five default types sends
\* exactly one POST to base + "ds/" + dataset_name expecting 201 whose body is
\* that type's fixed preset, whatever was called before; with any other type
\* it fails and sends nothing.
C11_DefaultPresets ==
  IsCreateDefaultDataSet
  => IF call.default_type \in DOMAIN PresetBodies
     THEN /\ raised = NoError
          /\ OneRequest("POST", <<201>>)
          /\ requests[1].custom_args.url
               = request_endpoint \o <<"d", "s", "/">> \o call.dataset_name
          /\ Body = PresetBodies[call.default_type]
     ELSE /\ raised # NoError
          /\ requests = <<>>

\* A second call on the object creates a partitioned default data set.
C11_Witness ==
  /\ IsCreateDefaultDataSet
  /\ call.default_type = "partitioned"
  /\ ncalls = MaxCalls
  /\ Len(requests) = 1
  /\ Body = [alcunit |-> "CYL", dsorg |-> "PO", primary |-> 1, dirblk |-> 5,
             recfm |-> "FB", blksize |-> 6160, lrecl |-> 80]

(***************************************************************************)
(* Recursive delete of USS files                                           *)
(***************************************************************************)
IsDeleteUss == call.op = "delete_uss"

\* The headers of the request the call sent.
Headers == requests[1].custom_args.headers

ExpectedCodes ==
  [list_files                      |-> {200},
   get_file_content                |-> {200},
   list_dsn                        |-> {200},
   list_dsn_members                |-> {200},
   get_dsn_content                 |-> {200},
   get_dsn_content_streamed        |-> {200},
   get_dsn_binary_content          |-> {200},
   get_dsn_binary_content_streamed |-> {200},
   list_unix_file_systems          |-> {200},
   create_data_set                 |-> {201},
   create_default_data_set         |-> {201},
   create_uss                      |-> {201},
   create_zFS_file_system          |-> {201},
   delete_uss                      |-> {204},
   delete_zFS_file_system          |-> {204},
   delete_data_set                 |-> {200, 202, 204},
   write_to_dsn                    |-> {201, 204},
   write_to_uss                    |-> {201, 204},
   mount_file_system               |-> {204},
   unmount_file_system             |-> {204},
   delete_migrated_data_set        |-> {200},
   rename_dataset                  |-> {200},
   rename_dataset_member           |-> {200}]

\* The codes of a request, as a set.
CodeSet(request) == {request.expected_code[i] : i \in DOMAIN request.expected_code}

\* C13: every request an operation hands to the request handler carries the
\* operation's fixed set of expected codes (reads and lists 200, creates 201,
\* delete_uss and delete_zFS_file_system 204, delete_data_set 200/202/204,
\* writes 201/204, mount and unmount 204, delete_migrated_data_set and the
\* renames 200), whatever the call's arguments.
C13_ExpectedCodes ==
  call.op \in DOMAIN ExpectedCodes
  => \A i \in DOMAIN requests : CodeSet(requests[i]) = ExpectedCodes[call.op]

\* A write to a data set in an encoding other than the default was sent.
C13_Witness ==
  /\ call.op = "write_to_dsn"
  /\ call.encoding # _ZOWE_FILES_DEFAULT_ENCODING
  /\ Len(requests) = 1
  /\ CodeSet(requests[1]) = {201, 204}

(***************************************************************************)
(* Errors come before requests                                             *)
(***************************************************************************)
ValidatingOperations ==
  {"create_data_set", "create_default_data_set", "create_zFS_file_system",
   "rename_dataset_member"}

UploadOperations == {"upload_file_to_dsn", "upload_file_to_uss"}

\* C14: an operation that ended in a validation error (create_data_set,
\* create_default_data_set, create_zFS_file_system, rename_dataset_member) has
\* sent no request, and an upload from a local path that is no file ends in
\* the source-not-found error and has sent no request.
C14_ErrorsBeforeRequests ==
  /\ (call.op \in ValidatingOperations /\ raised # NoError) => requests = <<>>
  /\ (call.op \in UploadOperations /\ ~call.is_file)
       => (raised.cls = "FileNotFound" /\ requests = <<>>)
  /\ (call.op \in UploadOperations /\ raised # NoError) => requests = <<>>

\* An upload to a USS file from a missing local path has failed.
C14_Witness ==
  /\ call.op = "upload_file_to_uss"
  /\ ~call.is_file
  /\ raised.cls = "FileNotFound"
  /\ requests = <<>>

(***************************************************************************)
(* The caller's option mapping                                             *)
(***************************************************************************)
\* C15: after any call of create_data_set or create_zFS_file_system, whether
\* it succeeded or failed, the option mapping the caller supplied holds
\* exactly the keys and values it held before the call.
C15_ValidatorPure ==
  (IsCreateDataSet \/ IsCreateZfs) => options = call.options

(***************************************************************************)
(* Requests do not depend on earlier calls                                 *)
(***************************************************************************)
IsMount == call.op = "mount_file_system"

IsUnmount == call.op = "unmount_file_system"

\* The call left its `options` argument out.
OptionsOmitted == "omitted" \in DOMAIN call

\* The requests of the call in progress when made on a new Files object, with
\* an empty mapping where the call left `options` out.
RequestsOnNewObject ==
  CASE IsMount ->
         mount_file_system(call.file_system_name, call.mount_point,
                           IF OptionsOmitted THEN EmptyDict ELSE call.options,
                           call.encoding).requests
    [] IsUnmount ->
         unmount_file_system(call.file_system_name,
                             IF OptionsOmitted THEN EmptyDict ELSE call.options,
                             call.encoding).requests
    [] IsCreateDataSet ->
         create_data_set(call.dataset_name,
                         IF OptionsOmitted THEN EmptyDict ELSE call.options).requests
    [] IsCreateZfs ->
         create_zFS_file_system(call.file_system_name,
                                IF OptionsOmitted THEN <<>> ELSE call.options).requests
    [] IsDeleteUss -> delete_uss(call.filepath_name, call.recursive).requests
    [] call.op = "write_to_dsn" ->
         write_to_dsn(call.dataset_name, call.data, call.encoding).requests
    [] call.op = "get_dsn_binary_content" ->
         get_dsn_binary_content(call.dataset_name, call.with_prefixes).requests
    [] call.op = "list_dsn_members" ->
         list_dsn_members(call.dataset_name, call.member_pattern, call.member_start,
                          call.limit, call.attributes).requests
    [] OTHER -> requests

TextWrites == {"write_to_dsn", "write_to_uss", "upload_file_to_dsn", "upload_file_to_uss"}

\* C17: every text write (write_to_dsn, write_to_uss, and upload_file_to_dsn
\* and upload_file_to_uss called with an encoding) sends the header
\* Content-Type 'text/plain; charset=<encoding>' with the encoding the caller
\* gave.
C17_ContentTypeEncoding ==
  (call.op \in TextWrites /\ requests # <<>>)
  => /\ Has(Headers, "Content-Type")
     /\ Headers["Content-Type"] = <<"text/plain; charset=">> \o call.encoding

(***************************************************************************)
(* USS paths in URLs                                                       *)
(***************************************************************************)
UssPathOperations == {"get_file_content", "delete_uss", "create_uss", "write_to_uss"}

\* The USS path the call was given.
PathGiven == IF call.op = "create_uss" THEN call.file_path ELSE call.filepath_name

\* The path without the '/' characters it starts with.
RECURSIVE WithoutLeadingSlash(_)
WithoutLeadingSlash(path) ==
  IF path # <<>> /\ Head(path) = "/" THEN WithoutLeadingSlash(Tail(path)) ELSE path

\* C18: get_file_content, delete_uss, create_uss and write_to_uss strip the
\* leading '/' of the USS path, so that the URL of the request is
\* base + "fs/" + the path without its leading slash, whether the path was
\* given with or without one.
C18_LeadingSlashStripped ==
  (call.op \in UssPathOperations /\ requests # <<>>)
  => requests[1].custom_args.url
       = request_endpoint \o <<"f", "s", "/">> \o WithoutLeadingSlash(PathGiven)

(***************************************************************************)
(* The URL of delete_data_set                                              *)
(***************************************************************************)
IsDeleteDataSet == call.op = "delete_data_set"

\* C19: the URL of delete_data_set is base + "ds/" + "-(volume)/" when a
\* volume is given + the data set name + "(member)" when a member name is
\* given; with both given it carries both.
C19_DeleteDataSetUrl ==
  IsDeleteDataSet
  => /\ Len(requests) = 1
     /\ requests[1].custom_args.url
          = request_endpoint \o <<"d", "s", "/">>
              \o (IF call.volume # None
                  THEN <<"-", "(">> \o call.volume \o <<")", "/">>
                  ELSE <<>>)
              \o call.dataset_name
              \o (IF call.member_name # None
                  THEN <<"(">> \o call.member_name \o <<")">>
                  ELSE <<>>)

====
